---- MODULE Spec2Model ----
(***************************************************************************)
(* Search-analytics pipeline of process_search_analytics.py: the event     *)
(* store searches_raw and its merge (upsert_data), the run of              *)
(* process_search_analytics over the input directory, and the derivation   *)
(* of the enriched table searches (add_calculated_columns).                *)
(*                                                                         *)
(* A table is a record [exists, cols, rows]: cols is the sequence of       *)
(* column names in declaration order and every row is a sequence of values *)
(* aligned with cols. Timestamps are integers (milliseconds since          *)
(* 2025-03-29 00:00:00 UTC); SQL NULL is NullStr in a text column and      *)
(* NullInt in a numeric one.                                               *)
(***************************************************************************)
EXTENDS Integers, Sequences, FiniteSets, TLC

\* ------------------------------------------------------------------ bounds
MaxBatch == 2        \* rows of one incoming batch
MaxMerges == 2       \* upsert_data calls of one behaviour
MaxFiles == 3        \* files in the input directory
MaxRuns == 2         \* runs of process_search_analytics of one behaviour
MaxRawRows == 3      \* rows of the store that add_calculated_columns starts from

\* --------------------------------------------------------------- SQL values
NullStr == "NULL"
NullInt == 0 - 1000000

Range(s) == {s[i] : i \in 1..Len(s)}

\* `a = b` in a WHERE clause: NULL on either side is not a match
SqlEqStr(a, b) == a # NullStr /\ b # NullStr /\ a = b
SqlEqInt(a, b) == a # NullInt /\ b # NullInt /\ a = b

\* ------------------------------------------------------------------ tables
NoTable == [exists |-> FALSE, cols |-> <<>>, rows |-> <<>>]
Table(cols, rows) == [exists |-> TRUE, cols |-> cols, rows |-> rows]

ColIdx(cols, c) == CHOOSE i \in 1..Len(cols) : cols[i] = c
Get(cols, row, c) == row[ColIdx(cols, c)]

\* the columns of a full export, and an export without the result count
SchemaFull == <<"timestamp", "user_id", "session_id", "name",
                "CP_searchQuery", "searchQuery", "query", "CP_totalResultCount">>
SchemaNoCount == <<"timestamp", "user_id", "session_id", "name",
                   "CP_searchQuery", "searchQuery", "query">>

\* an export that lists session_id before user_id
SchemaSwapped == <<"timestamp", "session_id", "user_id", "name",
                   "CP_searchQuery", "searchQuery", "query", "CP_totalResultCount">>

Row(ts, user, session, name, q, cnt) ==
    <<ts, user, session, name, q, NullStr, NullStr, cnt>>

SeqsUpTo(S, n) == UNION {[1..k -> S] : k \in 0..n}

\* a batch without the result-count column: the same rows, last column cut
CutCount(rows) == [i \in 1..Len(rows) |-> SubSeq(rows[i], 1, Len(SchemaNoCount))]

\* the same rows in the column order of SchemaSwapped
SwapIds(rows) ==
    [i \in 1..Len(rows) |->
        [c \in 1..Len(SchemaSwapped) |-> Get(SchemaFull, rows[i], SchemaSwapped[c])]]

\* the composite key of a row, NULLs included
KeyCols == <<"timestamp", "user_id", "session_id", "name">>
KeyOf(cols, row) == [i \in 1..Len(KeyCols) |-> Get(cols, row, KeyCols[i])]
HasKeyCols(cols) == \A i \in 1..Len(KeyCols) : KeyCols[i] \in Range(cols)

VARIABLES
    searches_raw,    \* the raw event store
    searches,        \* the enriched table
    last_batch,      \* the temp_import table of the last upsert_data call
    deleted_count,   \* deleted_count of the last upsert_data call
    upsert_status,   \* how the last upsert_data call ended
    merges,          \* number of upsert_data calls so far
    input_dir,       \* names of the files in input/
    pc,              \* position of the run: "idle", "loop", "derive", "export"
    run_mode,        \* "none", "full", "explicit" or "auto"
    files_to_process,\* files of the run that are still to be merged
    processed,       \* files of the run already merged, in order
    run_result,      \* how the last run ended ("none" while none has ended)
    raw_at_start,    \* searches_raw when the run started
    searches_at_start,\* searches when the run started
    runs,            \* number of runs started so far
    daily,           \* the rows of searches_daily.parquet
    journeys,        \* the rows of searches_journeys.parquet, with their group
    terms_context,   \* search_terms_with_context of the last terms export
    terms            \* the rows of searches_terms.parquet

storeVars == <<searches_raw, searches>>
mergeVars == <<last_batch, deleted_count, upsert_status, merges>>
runVars == <<input_dir, pc, run_mode, files_to_process, processed, run_result,
             raw_at_start, searches_at_start, runs>>
exportVars == <<daily, journeys, terms_context, terms>>
vars == <<storeVars, mergeVars, runVars, exportVars>>

\* --------------------------------------------------------------- upsert_data
PkMatchNoName(rc, r, tc, t) ==
    /\ SqlEqInt(Get(rc, r, "timestamp"), Get(tc, t, "timestamp"))
    /\ SqlEqStr(Get(rc, r, "user_id"), Get(tc, t, "user_id"))
    /\ SqlEqStr(Get(rc, r, "session_id"), Get(tc, t, "session_id"))

\* the WHERE clause of the DELETE: row r of searches_raw against row t of temp
PkMatch(rc, r, tc, t) ==
    /\ SqlEqInt(Get(rc, r, "timestamp"), Get(tc, t, "timestamp"))
    /\ SqlEqStr(Get(rc, r, "user_id"), Get(tc, t, "user_id"))
    /\ SqlEqStr(Get(rc, r, "session_id"), Get(tc, t, "session_id"))
    /\ SqlEqStr(Get(rc, r, "name"), Get(tc, t, "name"))

\* DELETE FROM searches_raw WHERE EXISTS (...): the rows that stay, in order
DeleteMatching(raw, temp) ==
    SelectSeq(raw.rows,
              LAMBDA r : ~\E i \in 1..Len(temp.rows) :
                            PkMatch(raw.cols, r, temp.cols, temp.rows[i]))

\* INSERT INTO searches_raw SELECT * FROM temp: positional, so it is refused
\* unless both tables have the same number of columns
InsertAccepted(raw, temp) == Len(temp.cols) = Len(raw.cols)

\* the rows of the batch, one for each key: the last row of the key
LastOfKey(temp) ==
    LET last == {i \in 1..Len(temp.rows) :
                    \A j \in (i + 1)..Len(temp.rows) :
                        KeyOf(temp.cols, temp.rows[j]) # KeyOf(temp.cols, temp.rows[i])}
        Pick[n \in 0..Len(temp.rows)] ==
            IF n = 0 THEN <<>>
            ELSE IF n \in last THEN Append(Pick[n - 1], temp.rows[n]) ELSE Pick[n - 1]
    IN Pick[Len(temp.rows)]

UpsertResultDistinct(raw, temp) ==
    IF ~raw.exists
    THEN [raw |-> temp, deleted |-> 0, status |-> "created"]
    ELSE IF ~(HasKeyCols(raw.cols) /\ HasKeyCols(temp.cols))
    THEN [raw |-> raw, deleted |-> 0, status |-> "error"]
    ELSE LET kept == DeleteMatching(raw, temp)
             deleted == Len(raw.rows) - Len(kept)
         IN IF InsertAccepted(raw, temp)
            THEN [raw |-> Table(raw.cols, kept \o LastOfKey(temp)),
                  deleted |-> deleted, status |-> "merged"]
            ELSE [raw |-> Table(raw.cols, kept),
                  deleted |-> deleted, status |-> "error"]

\* upsert_data on the store raw with the loaded batch temp:
\* the store afterwards, deleted_count and how the call ended
UpsertResult(raw, temp) ==
    IF ~raw.exists
    THEN [raw |-> temp, deleted |-> 0, status |-> "created"]
    ELSE IF ~(HasKeyCols(raw.cols) /\ HasKeyCols(temp.cols))
    THEN [raw |-> raw, deleted |-> 0, status |-> "error"]
    ELSE LET kept == DeleteMatching(raw, temp)
             deleted == Len(raw.rows) - Len(kept)
         IN IF InsertAccepted(raw, temp)
            THEN [raw |-> Table(raw.cols, kept \o temp.rows),
                  deleted |-> deleted, status |-> "merged"]
            ELSE [raw |-> Table(raw.cols, kept),
                  deleted |-> deleted, status |-> "error"]

\* ------------------------------------------------- add_calculated_columns
RC == "SEARCH_RESULT_COUNT"
ST == "SEARCH_TRIGGERED"
CLICK == "SEARCH_RESULT_CLICK"
SqlTrue == "true"
SqlFalse == "false"

MsPerHour == 3600000
MsPerDay == 86400000
\* 2025-03-30 01:00:00 UTC, when Europe/Berlin goes from UTC+1 to UTC+2
DstStartMs == 90000000

\* (timestamp AT TIME ZONE 'UTC') AT TIME ZONE 'Europe/Berlin': local wall clock
BerlinLocalMs(ts) == IF ts < DstStartMs THEN ts + MsPerHour ELSE ts + 2 * MsPerHour

SessionDateUtc(ts) == IF ts = NullInt THEN NullInt ELSE ts \div MsPerDay

\* DATE_TRUNC('day', local)::DATE as a day number, day 0 being 2025-03-29
SessionDate(ts) == IF ts = NullInt THEN NullInt ELSE BerlinLocalMs(ts) \div MsPerDay

\* CAST(date AS VARCHAR)
DateStr(d) ==
    IF d <= 2 THEN "2025-03-" \o ToString(29 + d)
    ELSE IF d <= 11 THEN "2025-04-0" \o ToString(d - 2)
    ELSE "2025-04-" \o ToString(d - 2)

CoalesceStr(v) == IF v = NullStr THEN "" ELSE v

SessionKey(ts, user, session) ==
    (IF SessionDate(ts) = NullInt THEN "" ELSE DateStr(SessionDate(ts)))
    \o "_" \o CoalesceStr(user) \o "_" \o CoalesceStr(session)

\* UPPER(name) on the event names of the model
Upper(n) ==
    CASE n = "search_triggered" -> ST
      [] n = "search_result_count" -> RC
      [] n = "search_result_click" -> CLICK
      [] OTHER -> n

IsNullResult(name, cnt) ==
    IF SqlEqStr(name, RC) /\ SqlEqInt(cnt, 0) THEN SqlTrue
    ELSE IF SqlEqStr(name, RC) /\ cnt # NullInt /\ cnt > 0 THEN SqlFalse
    ELSE NullStr

ClickCategory(name) ==
    CASE name = "SEARCH_RESULT_CLICK" -> "Result"
      [] name = "SEARCH_TRENDING_CLICKED" -> "Trending"
      [] name = "SEARCH_TAB_CLICK" -> "Tab"
      [] name = "SEARCH_ALL_TAB_PAGE_CLICK" -> "Pagination_All"
      [] name = "SEARCH_NEWS_TAB_PAGE_CLICK" -> "Pagination_News"
      [] name = "SEARCH_GOTO_TAB_PAGE_CLICK" -> "Pagination_GoTo"
      [] name = "SEARCH_FILTER_CLICK" -> "Filter"
      [] OTHER -> NullStr

IsSuccessClick(name) == IF SqlEqStr(name, CLICK) THEN SqlTrue ELSE SqlFalse

IsClickableResult(name, cnt) ==
    IF SqlEqStr(name, RC) /\ cnt # NullInt /\ cnt > 0 THEN SqlTrue
    ELSE IF SqlEqStr(name, RC) THEN SqlFalse
    ELSE NullStr

\* COALESCE(CP_searchQuery, searchQuery, query)
Coalesce3(a, b, c) == IF a # NullStr THEN a ELSE IF b # NullStr THEN b ELSE c

\* LOWER(TRIM(text)) on the search texts of the model
LowerTrim(q) ==
    CASE q = " ABC " -> "abc"
      [] q = "Abc" -> "abc"
      [] q = "  " -> ""
      [] OTHER -> q

\* EXTRACT(HOUR FROM local time)
EventHour(ts) == IF ts = NullInt THEN NullInt ELSE (BerlinLocalMs(ts) \div MsPerHour) % 24

\* the columns add_calculated_columns reads from searches_raw
DeriveCols == {"timestamp", "user_id", "session_id", "name", "CP_searchQuery",
               "searchQuery", "query", "CP_totalResultCount"}

\* one row of the first CREATE TABLE searches: the raw columns (name in upper
\* case) and the columns computed from the row alone
BaseRow(cols, r) ==
    [timestamp |-> Get(cols, r, "timestamp"),
     user_id |-> Get(cols, r, "user_id"),
     session_id |-> Get(cols, r, "session_id"),
     name |-> Upper(Get(cols, r, "name")),
     CP_searchQuery |-> Get(cols, r, "CP_searchQuery"),
     searchQuery |-> Get(cols, r, "searchQuery"),
     query |-> Get(cols, r, "query"),
     CP_totalResultCount |-> Get(cols, r, "CP_totalResultCount"),
     session_date |-> SessionDate(Get(cols, r, "timestamp")),
     session_key |-> SessionKey(Get(cols, r, "timestamp"), Get(cols, r, "user_id"),
                                Get(cols, r, "session_id")),
     search_term_normalized |-> LowerTrim(Coalesce3(Get(cols, r, "CP_searchQuery"),
                                    Get(cols, r, "searchQuery"), Get(cols, r, "query"))),
     event_hour |-> EventHour(Get(cols, r, "timestamp")),
     is_null_result |-> IsNullResult(Get(cols, r, "name"),
                                     Get(cols, r, "CP_totalResultCount")),
     is_clickable_result |-> IsClickableResult(Get(cols, r, "name"),
                                     Get(cols, r, "CP_totalResultCount")),
     click_category |-> ClickCategory(Get(cols, r, "name")),
     is_success_click |-> IsSuccessClick(Get(cols, r, "name"))]

BaseRows(raw) == [i \in 1..Len(raw.rows) |-> BaseRow(raw.cols, raw.rows[i])]

MinOf(S) == CHOOSE m \in S : \A x \in S : m <= x

NextVisitedUnordered(pk, ts, S) == {x \in S : pk[x] = pk[MinOf(S)]}

\* the rows a window OVER (PARTITION BY pk ORDER BY ts) may visit next when
\* the rows S are left, the partition of the first row left being visited:
\* the rows of least ts in that partition (the order among equal ts is not
\* determined by the query)
NextVisited(pk, ts, S) ==
    {x \in S : /\ pk[x] = pk[MinOf(S)]
               /\ \A y \in S : pk[y] = pk[x] => ts[x] <= ts[y]}

\* the orders in which the window may visit the rows S, partition after
\* partition (the window columns depend on the order inside a partition only)
RECURSIVE VisitOrders(_, _, _)
VisitOrders(pk, ts, S) ==
    IF S = {} THEN {<<>>}
    ELSE UNION {{<<x>> \o t : t \in VisitOrders(pk, ts, S \ {x})} :
                    x \in NextVisited(pk, ts, S)}

\* OVER (PARTITION BY session_key ORDER BY timestamp)
WindowOrders(base) ==
    VisitOrders([i \in 1..Len(base) |-> base[i].session_key],
                [i \in 1..Len(base) |-> base[i].timestamp], 1..Len(base))

PosIn(ord, i) == CHOOSE p \in 1..Len(ord) : ord[p] = i

\* rows of i's session that the window visits before row i
Preceding(base, ord, i) ==
    {j \in 1..Len(base) : /\ base[j].session_key = base[i].session_key
                          /\ PosIn(ord, j) < PosIn(ord, i)}

\* the first row visited in the session of row i
LagRowFirst(base, ord, i) ==
    CHOOSE j \in Preceding(base, ord, i) :
        \A k \in Preceding(base, ord, i) : PosIn(ord, j) <= PosIn(ord, k)

\* LAG: the row visited right before row i in its session
LagRow(base, ord, i) ==
    CHOOSE j \in Preceding(base, ord, i) :
        \A k \in Preceding(base, ord, i) : PosIn(ord, k) <= PosIn(ord, j)

DateDiffMsReversed(start, end) ==
    IF start = NullInt \/ end = NullInt THEN NullInt ELSE start - end

\* DATEDIFF('millisecond', start, end)
DateDiffMs(start, end) ==
    IF start = NullInt \/ end = NullInt THEN NullInt ELSE end - start

TimeBucketInclusive(ms) ==
    IF ms = NullInt THEN "First Event"
    ELSE IF ms <= 500 THEN "< 0.5s"
    ELSE IF ms <= 1000 THEN "0.5-1s"
    ELSE IF ms <= 2000 THEN "1-2s"
    ELSE IF ms <= 5000 THEN "2-5s"
    ELSE IF ms <= 10000 THEN "5-10s"
    ELSE IF ms <= 30000 THEN "10-30s"
    ELSE IF ms <= 60000 THEN "30-60s"
    ELSE "> 60s"

\* the CASE of time_since_prev_bucket
TimeBucket(ms) ==
    IF ms = NullInt THEN "First Event"
    ELSE IF ms < 500 THEN "< 0.5s"
    ELSE IF ms < 1000 THEN "0.5-1s"
    ELSE IF ms < 2000 THEN "1-2s"
    ELSE IF ms < 5000 THEN "2-5s"
    ELSE IF ms < 10000 THEN "5-10s"
    ELSE IF ms < 30000 THEN "10-30s"
    ELSE IF ms < 60000 THEN "30-60s"
    ELSE "> 60s"

\* LAST_VALUE(CASE WHEN name = 'SEARCH_TRIGGERED' THEN timestamp END IGNORE
\* NULLS) over the rows of the session up to row i
LastSearchStarted(base, ord, i) ==
    LET upto == {j \in Preceding(base, ord, i) \cup {i} : SqlEqStr(base[j].name, ST)}
    IN IF upto = {} THEN NullInt
       ELSE base[CHOOSE j \in upto : \A k \in upto : PosIn(ord, k) <= PosIn(ord, j)].timestamp

\* the window columns of row i under the visiting order ord
WindowCols(base, ord, i) ==
    LET first == Preceding(base, ord, i) = {}
        prev == LagRow(base, ord, i)
        ms == DateDiffMs(IF first THEN NullInt ELSE base[prev].timestamp,
                         base[i].timestamp)
    IN [event_order |-> Cardinality(Preceding(base, ord, i)) + 1,
        prev_event |-> IF first THEN NullStr ELSE base[prev].name,
        prev_timestamp |-> IF first THEN NullInt ELSE base[prev].timestamp,
        ms_since_prev_event |-> ms,
        time_since_prev_bucket |-> TimeBucket(ms),
        last_search_started_ts |-> LastSearchStarted(base, ord, i)]

\* record union: the fields of a and of b
Merge(a, b) ==
    [f \in DOMAIN a \cup DOMAIN b |-> IF f \in DOMAIN b THEN b[f] ELSE a[f]]

\* the second CREATE OR REPLACE TABLE searches, for one visiting order
Windowed(base, ord) ==
    [i \in 1..Len(base) |-> Merge(base[i], WindowCols(base, ord, i))]

\* OVER (PARTITION BY user_id, session_date ORDER BY timestamp)
DayOrders(rows) ==
    VisitOrders([i \in 1..Len(rows) |-> <<rows[i].user_id, rows[i].session_date>>],
                [i \in 1..Len(rows) |-> rows[i].timestamp], 1..Len(rows))

\* ROW_NUMBER() of row i in its (user_id, session_date) partition is 1
FirstOfUserDay(rows, ord, i) ==
    ~\E j \in 1..Len(rows) :
        /\ rows[j].user_id = rows[i].user_id
        /\ rows[j].session_date = rows[i].session_date
        /\ PosIn(ord, j) < PosIn(ord, i)

IsFirstSearchOfDay(rows, ord, i) ==
    IF SqlEqStr(rows[i].name, ST) /\ FirstOfUserDay(rows, ord, i) THEN SqlTrue
    ELSE IF SqlEqStr(rows[i].name, ST) THEN SqlFalse
    ELSE NullStr

\* the third CREATE OR REPLACE TABLE searches, for one visiting order
WithFirstSearch(rows, ord) ==
    [i \in 1..Len(rows) |->
        Merge(rows[i], [is_first_search_of_day |-> IsFirstSearchOfDay(rows, ord, i)])]

\* the tables add_calculated_columns may build from searches_raw
Derivations(raw) ==
    {WithFirstSearch(Windowed(BaseRows(raw), ord), dayord) :
        ord \in WindowOrders(BaseRows(raw)), dayord \in DayOrders(BaseRows(raw))}

SearchesCols == <<"searches">>
SearchesTable(rows) == [exists |-> TRUE, cols |-> SearchesCols, rows |-> rows]

\* ---------------------------------------------------- export_parquet_files
\* the rows of searches with the session_date d
OnDate(rows, d) == {i \in 1..Len(rows) : rows[i].session_date = d}

\* user_first_seen: MIN(session_date) of the rows of user u
FirstSeenDate(rows, u) ==
    MinOf({rows[i].session_date : i \in {j \in 1..Len(rows) : rows[j].user_id = u}})

\* searches s JOIN user_first_seen u ON s.user_id = u.user_id: the rows of
\* date d that have a user_id
CohortRows(rows, d) == {i \in OnDate(rows, d) : rows[i].user_id # NullStr}

\* one row of daily_user_cohorts
DailyUserCohort(rows, d) ==
    [new_users |-> Cardinality({rows[i].user_id : i \in
                        {j \in CohortRows(rows, d) : d = FirstSeenDate(rows, rows[j].user_id)}}),
     returning_users |-> Cardinality({rows[i].user_id : i \in
                        {j \in CohortRows(rows, d) : d > FirstSeenDate(rows, rows[j].user_id)}})]

\* the dates of daily_session_metrics and of daily_user_cohorts
SessionMetricsDates(rows) == {rows[i].session_date : i \in 1..Len(rows)}
UserCohortDates(rows) ==
    {d \in SessionMetricsDates(rows) : CohortRows(rows, d) # {}}

\* n / d rounded to the nearest integer, halves away from zero (n, d >= 0)
RoundDiv(n, d) == (2 * n + d) \div (2 * d)

RatePctZero(a, b) == IF b = 0 THEN 0 ELSE RoundDiv(10000 * a, b)

\* ROUND(100.0 * a / NULLIF(b, 0), 2) in hundredths of a percent
RatePct(a, b) == IF b = 0 THEN NullInt ELSE RoundDiv(10000 * a, b)

InNightSix(h) == h # NullInt /\ h >= 0 /\ h < 6

\* the four conditions on event_hour of the searches_* counts
InNight(h) == h # NullInt /\ h >= 0 /\ h < 8
InMorning(h) == h # NullInt /\ h >= 8 /\ h < 12
InAfternoon(h) == h # NullInt /\ h >= 12 /\ h < 18
InEvening(h) == h # NullInt /\ h >= 18 /\ h < 24

\* one row of the daily export: the group of the rows M of searches
DailyRow(rows, d) ==
    LET M == OnDate(rows, d)
        starts == {i \in M : SqlEqStr(rows[i].name, ST)}
        search_starts == Cardinality(starts)
        result_events == Cardinality({i \in M : SqlEqStr(rows[i].name, RC)})
        success_clicks == Cardinality({i \in M : rows[i].is_success_click = SqlTrue})
        null_results == Cardinality({i \in M : rows[i].is_null_result = SqlTrue})
    IN [date |-> d,
        total_events |-> Cardinality(M),
        unique_sessions |-> Cardinality({rows[i].session_key : i \in M}),
        search_starts |-> search_starts,
        result_events |-> result_events,
        click_events |-> Cardinality({i \in M : rows[i].click_category # NullStr}),
        success_clicks |-> success_clicks,
        null_results |-> null_results,
        click_rate_pct |-> RatePct(success_clicks, search_starts),
        null_rate_pct |-> RatePct(null_results, result_events),
        searches_night |-> Cardinality({i \in starts : InNight(rows[i].event_hour)}),
        searches_morning |-> Cardinality({i \in starts : InMorning(rows[i].event_hour)}),
        searches_afternoon |-> Cardinality({i \in starts : InAfternoon(rows[i].event_hour)}),
        searches_evening |-> Cardinality({i \in starts : InEvening(rows[i].event_hour)}),
        new_users |-> DailyUserCohort(rows, d).new_users,
        returning_users |-> DailyUserCohort(rows, d).returning_users]

\* FROM searches s JOIN daily_session_metrics d ON s.session_date =
\* d.session_date JOIN daily_user_cohorts uc ON s.session_date =
\* uc.session_date GROUP BY 1: one row for each date that both have
Daily(rows) ==
    {DailyRow(rows, d) : d \in SessionMetricsDates(rows) \cap UserCohortDates(rows)}

\* GROUP BY session_key, session_date, user_id
JourneyGroups(rows) ==
    {<<rows[i].session_key, rows[i].session_date, rows[i].user_id>> : i \in 1..Len(rows)}

GroupMembers(rows, g) ==
    {i \in 1..Len(rows) :
        <<rows[i].session_key, rows[i].session_date, rows[i].user_id>> = g}

\* one row of session_data
SessionData(rows, g) ==
    LET M == GroupMembers(rows, g)
    IN [session_key |-> g[1],
        session_date |-> g[2],
        user_id |-> g[3],
        session_start |-> MinOf({rows[i].timestamp : i \in M}),
        total_events |-> Cardinality(M),
        search_count_in_session |-> Cardinality({i \in M : SqlEqStr(rows[i].name, ST)}),
        result_count |-> Cardinality({i \in M : SqlEqStr(rows[i].name, RC)}),
        click_count |-> Cardinality({i \in M : rows[i].click_category # NullStr}),
        success_click_count |-> Cardinality({i \in M : rows[i].is_success_click = SqlTrue}),
        null_result_count |-> Cardinality({i \in M : rows[i].is_null_result = SqlTrue})]

JourneyOutcomeNoResultsFirst(d) ==
    IF d.result_count > 0 /\ d.null_result_count = d.result_count THEN "No Results"
    ELSE IF d.success_click_count > 0 THEN "Success"
    ELSE IF d.click_count > 0 /\ d.success_click_count = 0 THEN "Engaged"
    ELSE IF d.result_count > 0 /\ d.click_count = 0 THEN "Abandoned"
    ELSE "Unknown"

\* the CASE of journey_outcome
JourneyOutcome(d) ==
    IF d.success_click_count > 0 THEN "Success"
    ELSE IF d.click_count > 0 /\ d.success_click_count = 0 THEN "Engaged"
    ELSE IF d.result_count > 0 /\ d.null_result_count = d.result_count THEN "No Results"
    ELSE IF d.result_count > 0 /\ d.click_count = 0 THEN "Abandoned"
    ELSE "Unknown"

\* the CASE of journey_outcome_sort
JourneyOutcomeSort(d) ==
    IF d.success_click_count > 0 THEN 1
    ELSE IF d.click_count > 0 /\ d.success_click_count = 0 THEN 2
    ELSE IF d.result_count > 0 /\ d.null_result_count = d.result_count THEN 4
    ELSE IF d.result_count > 0 /\ d.click_count = 0 THEN 3
    ELSE 5

\* the rows of the journeys export, each with the columns of its group
Journeys(rows) ==
    {Merge(SessionData(rows, g),
           [journey_outcome |-> JourneyOutcome(SessionData(rows, g)),
            journey_outcome_sort |-> JourneyOutcomeSort(SessionData(rows, g))]) :
        g \in JourneyGroups(rows)}

\* print_summary: one row of session_summary, GROUP BY session_key
SessionSummary(rows, k) ==
    LET M == {i \in 1..Len(rows) : rows[i].session_key = k}
    IN [session_key |-> k,
        success_clicks |-> Cardinality({i \in M : rows[i].is_success_click = SqlTrue}),
        null_results |-> Cardinality({i \in M : rows[i].is_null_result = SqlTrue}),
        results |-> Cardinality({i \in M : SqlEqStr(rows[i].name, RC)})]

\* print_summary: the CASE of outcome
SummaryOutcome(s) ==
    IF s.success_clicks > 0 THEN "Success"
    ELSE IF s.results > 0 /\ s.null_results = s.results /\ s.success_clicks = 0
    THEN "No Results"
    ELSE IF s.results > 0 /\ s.success_clicks = 0 THEN "Abandoned"
    ELSE "Unknown"

\* print_summary: the outcome each session_key of searches is counted under
SummaryOutcomes(rows) ==
    {[session_key |-> rows[i].session_key,
      outcome |-> SummaryOutcome(SessionSummary(rows, rows[i].session_key))] :
        i \in 1..Len(rows)}

\* WHERE name = 'SEARCH_TRIGGERED' OR name = 'SEARCH_RESULT_COUNT'
\*    OR click_category IS NOT NULL
InTermsContext(rows) ==
    {i \in 1..Len(rows) : \/ SqlEqStr(rows[i].name, ST)
                          \/ SqlEqStr(rows[i].name, RC)
                          \/ rows[i].click_category # NullStr}

\* OVER (PARTITION BY session_key ORDER BY timestamp) on the rows selected
TermOrders(rows) ==
    VisitOrders([i \in 1..Len(rows) |-> rows[i].session_key],
                [i \in 1..Len(rows) |-> rows[i].timestamp], InTermsContext(rows))

\* LAST_VALUE(search_term_normalized IGNORE NULLS) over the rows of the
\* session from the first one to row i
ActiveSearchTerm(rows, ord, i) ==
    LET upto == {j \in InTermsContext(rows) :
                    /\ rows[j].session_key = rows[i].session_key
                    /\ PosIn(ord, j) <= PosIn(ord, i)
                    /\ rows[j].search_term_normalized # NullStr}
    IN IF upto = {} THEN NullStr
       ELSE rows[CHOOSE j \in upto :
                    \A k \in upto : PosIn(ord, k) <= PosIn(ord, j)].search_term_normalized

\* search_terms_with_context for one visiting order: the selected rows of
\* searches, each with its active_search_term
TermsContext(rows, ord) ==
    [i \in InTermsContext(rows) |->
        Merge(rows[i], [active_search_term |-> ActiveSearchTerm(rows, ord, i)])]

\* WHERE stc.active_search_term IS NOT NULL AND stc.active_search_term != ''
\* GROUP BY stc.session_date, stc.active_search_term
TermGroups(ctx) ==
    {<<ctx[i].session_date, ctx[i].active_search_term>> :
        i \in {j \in DOMAIN ctx : ctx[j].active_search_term \notin {NullStr, ""}}}

TermFirstSeenInContext(rows, t) ==
    LET D == {rows[i].session_date :
                 i \in {j \in InTermsContext(rows) : rows[j].search_term_normalized = t}}
    IN IF D = {} THEN NullInt ELSE MinOf(D)

\* term_first_seen LEFT JOINed on the term t: MIN(session_date) of the rows
\* of searches with that search_term_normalized, NULL when there is none
TermFirstSeen(rows, t) ==
    LET D == {rows[i].session_date :
                 i \in {j \in 1..Len(rows) : rows[j].search_term_normalized = t}}
    IN IF D = {} THEN NullInt ELSE MinOf(D)

\* one row of term_aggregates: the group g of search_terms_with_context
TermRow(rows, ctx, g) ==
    LET M == {i \in DOMAIN ctx : /\ ctx[i].session_date = g[1]
                                  /\ ctx[i].active_search_term = g[2]}
        starts == {i \in M : SqlEqStr(ctx[i].name, ST)}
    IN [session_date |-> g[1],
        search_term |-> g[2],
        search_count |-> Cardinality(starts),
        result_events |-> Cardinality({i \in M : SqlEqStr(ctx[i].name, RC)}),
        null_result_count |-> Cardinality({i \in M : ctx[i].is_null_result = SqlTrue}),
        click_count |-> Cardinality({i \in M : ctx[i].click_category # NullStr}),
        success_click_count |-> Cardinality({i \in M : ctx[i].is_success_click = SqlTrue}),
        searches_night |-> Cardinality({i \in starts : InNight(ctx[i].event_hour)}),
        searches_morning |-> Cardinality({i \in starts : InMorning(ctx[i].event_hour)}),
        searches_afternoon |-> Cardinality({i \in starts : InAfternoon(ctx[i].event_hour)}),
        searches_evening |-> Cardinality({i \in starts : InEvening(ctx[i].event_hour)}),
        first_seen_date |-> TermFirstSeen(rows, g[2]),
        is_new_term |-> IF /\ TermFirstSeen(rows, g[2]) # NullInt
                           /\ g[1] = TermFirstSeen(rows, g[2])
                        THEN SqlTrue ELSE SqlFalse]

\* the rows of the terms export
Terms(rows, ctx) == {TermRow(rows, ctx, g) : g \in TermGroups(ctx)}

\* ------------------------------------------------------- batches of a merge
MergeRows ==
    { Row(0, "u1", "s1", RC, NullStr, 0),
      Row(0, "u1", "s1", RC, NullStr, 5),
      Row(0, NullStr, "s1", RC, NullStr, 0),
      Row(0, NullStr, "s1", RC, NullStr, 5) }

\* a row of the same timestamp, user and session under another event name
OtherNameRow == Row(0, "u1", "s1", ST, "abc", NullInt)

MergeBatches ==
    {Table(SchemaFull, rows) : rows \in SeqsUpTo(MergeRows, MaxBatch)}
    \cup {Table(SchemaFull, <<OtherNameRow>>),
          Table(SchemaNoCount, CutCount(<<OtherNameRow>>)),
          Table(SchemaSwapped, SwapIds(<<OtherNameRow>>))}

upsert_data(temp) ==
    /\ merges < MaxMerges
    /\ LET res == UpsertResult(searches_raw, temp)
       IN /\ searches_raw' = res.raw
          /\ deleted_count' = res.deleted
          /\ upsert_status' = res.status
    /\ last_batch' = temp
    /\ merges' = merges + 1
    /\ UNCHANGED <<searches, runVars, exportVars>>

\* no database file yet, nothing merged
EmptyStore ==
    /\ searches_raw = NoTable
    /\ searches = NoTable
    /\ last_batch = NoTable
    /\ deleted_count = 0
    /\ upsert_status = "none"
    /\ merges = 0

\* nothing exported yet
NoExports ==
    /\ daily = {}
    /\ journeys = {}
    /\ terms_context = <<>>
    /\ terms = {}

NoRun ==
    /\ pc = "idle"
    /\ run_mode = "none"
    /\ files_to_process = <<>>
    /\ processed = <<>>
    /\ run_result = "none"
    /\ raw_at_start = NoTable
    /\ searches_at_start = NoTable
    /\ runs = 0

Init ==
    /\ EmptyStore
    /\ NoRun
    /\ NoExports
    /\ input_dir = {}

Next == \E temp \in MergeBatches : upsert_data(temp)

Spec == Init /\ [][Next]_vars

\* ------------------------------------------------------ the input directory
NoDate == NullInt

IsLeap(y) == (y % 4 = 0 /\ y % 100 # 0) \/ y % 400 = 0
DaysInMonth(y, m) ==
    IF m = 2 THEN (IF IsLeap(y) THEN 29 ELSE 28)
    ELSE IF m \in {4, 6, 9, 11} THEN 30 ELSE 31

\* extract_date_from_filename on the _YYYY_MM_DD suffix of the stem, given as
\* <<year, month, day>> (<<>> when the stem has no such suffix): the date as
\* the number yyyymmdd, or NoDate when datetime() rejects it
extract_date_from_filename(suffix) ==
    IF suffix = <<>> THEN NoDate
    ELSE IF /\ suffix[1] >= 1
            /\ suffix[2] \in 1..12
            /\ suffix[3] >= 1 /\ suffix[3] <= DaysInMonth(suffix[1], suffix[2])
    THEN suffix[1] * 10000 + suffix[2] * 100 + suffix[3]
    ELSE NoDate

K1(cnt) == Row(0, "u1", "s1", RC, NullStr, cnt)
KNull(cnt) == Row(0, NullStr, "s1", RC, NullStr, cnt)

\* the files on disk that a run may be given or may find in input/
FileNames == {"export_2025_01_13.csv", "export_2025_01_20.csv", "extra_2025_01_20.csv",
              "adhoc.xlsx", "short_2025_02_03.csv", "swapped_2025_01_27.csv"}

\* the paths an explicit run may be given: a file on disk or a path that
\* names no file
MissingPath == "missing.csv"
ExplicitPaths == FileNames \cup {MissingPath}

\* the files that may lie in input/: filename suffix, extension, modification
\* time and the table load_file_to_temp_table reads from the file
FileInfo(f) ==
    CASE f = "export_2025_01_13.csv" ->
           [suffix |-> <<2025, 1, 13>>, ext |-> "csv", mtime |-> 5,
            batch |-> Table(SchemaFull, <<K1(0), KNull(0)>>)]
      [] f = "export_2025_01_20.csv" ->
           [suffix |-> <<2025, 1, 20>>, ext |-> "csv", mtime |-> 4,
            batch |-> Table(SchemaFull, <<K1(5), KNull(5)>>)]
      [] f = "extra_2025_01_20.csv" ->
           [suffix |-> <<2025, 1, 20>>, ext |-> "csv", mtime |-> 3,
            batch |-> Table(SchemaFull, <<K1(7)>>)]
      [] f = "adhoc.xlsx" ->
           [suffix |-> <<>>, ext |-> "xlsx", mtime |-> 1,
            batch |-> Table(SchemaFull, <<K1(9)>>)]
      [] f = "short_2025_02_03.csv" ->
           [suffix |-> <<2025, 2, 3>>, ext |-> "csv", mtime |-> 6,
            batch |-> Table(SchemaNoCount, CutCount(<<K1(0)>>))]
      [] f = "swapped_2025_01_27.csv" ->
           [suffix |-> <<2025, 1, 27>>, ext |-> "csv", mtime |-> 7,
            batch |-> Table(SchemaSwapped,
                            SwapIds(<<Row(600, "u2", "s2", CLICK, NullStr, NullInt)>>))]

FileDate(f) == extract_date_from_filename(FileInfo(f).suffix)
FileMtime(f) == FileInfo(f).mtime

\* the sort keys: key=lambda x: x[1] and key=os.path.getmtime
DateKey == [f \in FileNames |-> FileDate(f)]
MtimeKey == [f \in FileNames |-> FileMtime(f)]

\* patterns = ['*.xlsx', '*.xls', '*.csv']
PatternRank(ext) == CASE ext = "xlsx" -> 1 [] ext = "xls" -> 2 [] ext = "csv" -> 3

\* all_files: the matches of the three patterns one after the other, the
\* matches of one pattern in whatever order glob returns them
Listings(dir) ==
    {l \in [1..Cardinality(dir) -> dir] :
        /\ \A a, b \in 1..Cardinality(dir) : a # b => l[a] # l[b]
        /\ \A a, b \in 1..Cardinality(dir) :
              a < b => PatternRank(FileInfo(l[a]).ext) <= PatternRank(FileInfo(l[b]).ext)}

\* list.sort(key=K): ascending and stable
SortAsc(s, K) ==
    LET rank(i) == 1 + Cardinality({j \in 1..Len(s) :
                        K[s[j]] < K[s[i]] \/ (K[s[j]] = K[s[i]] /\ j < i)})
    IN [p \in 1..Len(s) |-> s[CHOOSE i \in 1..Len(s) : rank(i) = p]]

\* list.sort(key=K, reverse=True): descending and stable
SortDesc(s, K) ==
    LET rank(i) == 1 + Cardinality({j \in 1..Len(s) :
                        K[s[j]] > K[s[i]] \/ (K[s[j]] = K[s[i]] /\ j < i)})
    IN [p \in 1..Len(s) |-> s[CHOOSE i \in 1..Len(s) : rank(i) = p]]

Dated(l) == SelectSeq(l, LAMBDA f : FileDate(f) # NoDate)
Undated(l) == SelectSeq(l, LAMBDA f : FileDate(f) = NoDate)

\* files_with_dates.sort(key=lambda x: x[1])
SortedByDate(l) == SortAsc(l, DateKey)

\* get_all_input_files on the listing all_files
get_all_input_files(all_files) ==
    SortedByDate(Dated(all_files)) \o SortAsc(Undated(all_files), MtimeKey)

\* find_latest_input_file on the listing all_files: <<>> stands for None
find_latest_input_file(all_files) ==
    IF all_files = <<>> THEN <<>>
    ELSE IF Dated(all_files) = <<>>
    THEN <<SortDesc(all_files, MtimeKey)[1]>>
    ELSE <<SortDesc(Dated(all_files), DateKey)[1]>>

\* ------------------------------------------------ process_search_analytics
\* the part of a run before duckdb.connect, common to the three modes:
\* either the run exits with status 1 or it starts the loop over files
BeginRun(mode, files, result) ==
    /\ run_mode' = mode
    /\ raw_at_start' = searches_raw
    /\ searches_at_start' = searches
    /\ processed' = <<>>
    /\ runs' = runs + 1
    /\ files_to_process' = files
    /\ IF files = <<>>
       THEN pc' = "idle" /\ run_result' = result
       ELSE pc' = "loop" /\ run_result' = "running"
    /\ UNCHANGED <<mergeVars, input_dir, exportVars>>

\* --full-refresh: the database file is deleted, then the files are looked up
StartFullRefresh ==
    /\ pc = "idle" /\ runs < MaxRuns
    /\ searches_raw' = NoTable
    /\ searches' = NoTable
    /\ \E l \in Listings(input_dir) :
          BeginRun("full", get_all_input_files(l), "no_input")

\* an explicit input path
StartExplicit(f) ==
    /\ pc = "idle" /\ runs < MaxRuns
    /\ UNCHANGED storeVars
    /\ BeginRun("explicit", IF f \in FileNames THEN <<f>> ELSE <<>>, "file_not_found")

\* no argument: the latest file of input/
StartAuto ==
    /\ pc = "idle" /\ runs < MaxRuns
    /\ UNCHANGED storeVars
    /\ \E l \in Listings(input_dir) :
          BeginRun("auto", find_latest_input_file(l), "no_input")

\* one turn of the loop: load_file_to_temp_table, then upsert_data; an
\* exception of upsert_data ends the run
ProcessFile ==
    /\ pc = "loop"
    /\ LET f == Head(files_to_process)
           temp == FileInfo(f).batch
           res == UpsertResult(searches_raw, temp)
       IN /\ searches_raw' = res.raw
          /\ last_batch' = temp
          /\ deleted_count' = res.deleted
          /\ upsert_status' = res.status
          /\ IF res.status = "error"
             THEN /\ pc' = "idle"
                  /\ run_result' = "upsert_failed"
                  /\ UNCHANGED <<files_to_process, processed>>
             ELSE /\ files_to_process' = Tail(files_to_process)
                  /\ processed' = Append(processed, f)
                  /\ pc' = IF Tail(files_to_process) = <<>> THEN "derive" ELSE "loop"
                  /\ UNCHANGED run_result
    /\ UNCHANGED <<searches, merges, input_dir, run_mode, raw_at_start, exportVars,
                   searches_at_start, runs>>

\* add_calculated_columns: searches is dropped and built again from
\* searches_raw; a column the query reads but searches_raw lacks ends the run
add_calculated_columns ==
    /\ pc = "derive"
    /\ IF DeriveCols \subseteq Range(searches_raw.cols)
       THEN /\ \E rows \in Derivations(searches_raw) :
                  searches' = SearchesTable(rows)
            /\ pc' = "export"
            /\ UNCHANGED run_result
       ELSE /\ searches' = NoTable
            /\ pc' = "idle"
            /\ run_result' = "derive_failed"
    /\ UNCHANGED <<searches_raw, mergeVars, input_dir, run_mode, files_to_process, exportVars,
                   processed, raw_at_start, searches_at_start, runs>>

\* export_parquet_files, print_summary and con.close(): the exports are
\* written again from searches
FinishRun ==
    /\ pc = "export"
    /\ daily' = Daily(searches.rows)
    /\ journeys' = Journeys(searches.rows)
    /\ \E ord \in TermOrders(searches.rows) :
          /\ terms_context' = TermsContext(searches.rows, ord)
          /\ terms' = Terms(searches.rows, TermsContext(searches.rows, ord))
    /\ pc' = "idle"
    /\ run_result' = "done"
    /\ UNCHANGED <<storeVars, mergeVars, input_dir, run_mode, files_to_process,
                   processed, raw_at_start, searches_at_start, runs>>

StoreRolledBack(raw, start) == start

\* the store that the database file holds when an exception ends the run:
\* every statement of the run was committed when it was executed and nothing
\* undoes it
StoreAfterFailure(raw, start) == raw

\* the artifacts in the order export_parquet_files writes them
Artifacts == <<"raw", "daily", "journeys", "terms">>

\* export_parquet_files raises while it writes artifact number k: the
\* artifacts before it are written again, the file of artifact k was
\* unlinked before its COPY, the artifacts after it are left as they were;
\* the exception ends the run
ExportFails(k) ==
    /\ pc = "export"
    /\ daily' = IF k > 2 THEN Daily(searches.rows) ELSE IF k = 2 THEN {} ELSE daily
    /\ journeys' = IF k > 3 THEN Journeys(searches.rows)
                   ELSE IF k = 3 THEN {} ELSE journeys
    /\ IF k = 4 THEN terms_context' = <<>> /\ terms' = {}
       ELSE UNCHANGED <<terms_context, terms>>
    /\ searches_raw' = StoreAfterFailure(searches_raw, raw_at_start)
    /\ pc' = "idle"
    /\ run_result' = "export_failed"
    /\ UNCHANGED <<searches, mergeVars, input_dir, run_mode, files_to_process,
                   processed, raw_at_start, searches_at_start, runs>>

InputDirs == {d \in SUBSET FileNames : Cardinality(d) <= MaxFiles}

RunInit ==
    /\ EmptyStore
    /\ NoRun
    /\ NoExports
    /\ input_dir \in InputDirs

RunNext ==
    \/ StartFullRefresh
    \/ \E f \in ExplicitPaths : StartExplicit(f)
    \/ StartAuto
    \/ ProcessFile
    \/ add_calculated_columns
    \/ FinishRun
    \/ \E k \in 1..Len(Artifacts) : ExportFails(k)

SpecRun == RunInit /\ [][RunNext]_vars

\* runs over exports of the full schema, which every run can merge and
\* derive from, so that each run reaches the export
ExportFiles == {"export_2025_01_13.csv", "extra_2025_01_20.csv", "adhoc.xlsx"}

ExportInit ==
    /\ EmptyStore
    /\ NoRun
    /\ NoExports
    /\ input_dir \in {d \in InputDirs : d \subseteq ExportFiles}

ExportNext ==
    \/ StartFullRefresh
    \/ \E f \in ExportFiles \cup {MissingPath} : StartExplicit(f)
    \/ StartAuto
    \/ ProcessFile
    \/ add_calculated_columns
    \/ FinishRun
    \/ \E k \in 1..Len(Artifacts) : ExportFails(k)

SpecExport == ExportInit /\ [][ExportNext]_vars

\* ---------------------------------------------------- properties of a merge
Count(s, r) == Cardinality({i \in 1..Len(s) : s[i] = r})
SameRows(a, b) ==
    /\ Len(a) = Len(b)
    /\ \A r \in Range(a) \cup Range(b) : Count(a, r) = Count(b, r)

BatchKeys(temp) == {KeyOf(temp.cols, temp.rows[i]) : i \in 1..Len(temp.rows)}

\* the step is a call of upsert_data
IsUpsertStep == merges' = merges + 1
\* ... that returned normally
UpsertCompleted == IsUpsertStep /\ upsert_status' \in {"created", "merged"}

\* C1: after any sequence of merges starting from the empty store, no two
\* rows of searches_raw have the same (timestamp, user_id, session_id, name).
C1_KeyUnique ==
    (searches_raw.exists /\ HasKeyCols(searches_raw.cols)) =>
        \A i, j \in 1..Len(searches_raw.rows) :
            i # j => KeyOf(searches_raw.cols, searches_raw.rows[i])
                     # KeyOf(searches_raw.cols, searches_raw.rows[j])

\* C2: merging the batch that was merged last once more leaves the store
\* with the same rows, and deleted_count of that second merge is the batch size.
C2_Idempotent ==
    [][(UpsertCompleted /\ upsert_status \in {"created", "merged"}
        /\ last_batch' = last_batch) =>
          /\ SameRows(searches_raw'.rows, searches_raw.rows)
          /\ deleted_count' = Len(last_batch.rows)]_vars

\* row r of the store carries row t of the batch: the same value in every
\* column of the store that the batch has
CarriesBatchRow(rc, r, tc, t) ==
    \A c \in Range(rc) : c \in Range(tc) => Get(rc, r, c) = Get(tc, t, c)

\* C3: after a merge, every store row whose composite key occurs in the batch
\* is a row of the batch, with the batch's value in every column.
C3_LastWriterWins ==
    [][UpsertCompleted =>
          \A i \in 1..Len(searches_raw'.rows) :
              KeyOf(searches_raw'.cols, searches_raw'.rows[i]) \in BatchKeys(last_batch')
              => \E k \in 1..Len(last_batch'.rows) :
                    CarriesBatchRow(searches_raw'.cols, searches_raw'.rows[i],
                                    last_batch'.cols, last_batch'.rows[k])]_vars

\* rows of the store whose composite key appears in the batch
Collisions(raw, temp) ==
    Cardinality({i \in 1..Len(raw.rows) :
                    KeyOf(raw.cols, raw.rows[i]) \in BatchKeys(temp)})

\* C4: a merge into an existing store changes the row count by
\* batch_size - collisions.
C4_RowCountLaw ==
    [][(UpsertCompleted /\ searches_raw.exists) =>
          Len(searches_raw'.rows) =
              Len(searches_raw.rows) + Len(last_batch'.rows)
              - Collisions(searches_raw, last_batch')]_vars

\* the rows of the table whose composite key is not a key of the batch
RowsOutsideBatch(tab, temp) ==
    SelectSeq(tab.rows, LAMBDA r : KeyOf(tab.cols, r) \notin BatchKeys(temp))

\* the rows of the store that were there before the last merge
KeptRows(raw, deleted, temp, status) ==
    Table(raw.cols, SubSeq(raw.rows, 1,
              Len(raw.rows) - (IF status = "merged" THEN Len(temp.rows) ELSE 0)))

\* C5: a merge neither removes nor alters a store row whose composite key
\* does not appear in the batch: the store keeps its columns, the rows it
\* keeps are the old rows less deleted_count rows, and among them the rows
\* of keys outside the batch are the same, in the same order, as before.
C5_Frame ==
    [][(IsUpsertStep /\ searches_raw.exists) =>
          LET kept == KeptRows(searches_raw', deleted_count', last_batch', upsert_status')
          IN /\ searches_raw'.exists
             /\ searches_raw'.cols = searches_raw.cols
             /\ Len(kept.rows) = Len(searches_raw.rows) - deleted_count'
             /\ RowsOutsideBatch(kept, last_batch')
                = RowsOutsideBatch(searches_raw, last_batch')]_vars

\* C5 witness: a merge deleted a colliding row and kept a row of another key
C5_Witness ==
    /\ upsert_status = "merged"
    /\ deleted_count > 0
    /\ Len(RowsOutsideBatch(searches_raw, last_batch)) > 0

\* the batch lacks a column that the store has, and has no other column
LacksColumn(raw, temp) ==
    /\ Range(temp.cols) \subseteq Range(raw.cols)
    /\ Range(temp.cols) # Range(raw.cols)

\* C6: a batch that lacks a column of the store is merged; its rows are the
\* last rows of the store, with NULL in the columns the batch lacks and the
\* batch's value in each column of the same name.
C6_SchemaUnion ==
    (upsert_status \in {"merged", "error"} /\ LacksColumn(searches_raw, last_batch)) =>
        /\ upsert_status = "merged"
        /\ Len(searches_raw.rows) >= Len(last_batch.rows)
        /\ \A k \in 1..Len(last_batch.rows) :
              LET r == searches_raw.rows[Len(searches_raw.rows) - Len(last_batch.rows) + k]
              IN \A c \in Range(searches_raw.cols) :
                    IF c \in Range(last_batch.cols)
                    THEN Get(searches_raw.cols, r, c)
                         = Get(last_batch.cols, last_batch.rows[k], c)
                    ELSE Get(searches_raw.cols, r, c) \in {NullStr, NullInt}

\* ------------------------------------------------- load_file_to_temp_table
\* temp_import while it is loaded: the table with the type of each column
TypedTable(cols, types, rows) ==
    [exists |-> TRUE, cols |-> cols, types |-> types, rows |-> rows]

TypeOf(t, c) == t.types[ColIdx(t.cols, c)]

\* ALTER TABLE ... ADD COLUMN c of type ty: a last column, NULL in every row
AddColumn(t, c, ty, null) ==
    TypedTable(Append(t.cols, c), Append(t.types, ty),
               [i \in 1..Len(t.rows) |-> Append(t.rows[i], null)])

\* UPDATE ... SET c = vals
SetColumn(t, c, vals) ==
    TypedTable(t.cols, t.types,
               [i \in 1..Len(t.rows) |->
                   [k \in 1..Len(t.cols) |->
                       IF k = ColIdx(t.cols, c) THEN vals[i] ELSE t.rows[i][k]]])

\* the sequence s without its element number n
Without(s, n) == SubSeq(s, 1, n - 1) \o SubSeq(s, n + 1, Len(s))

\* ALTER TABLE ... DROP COLUMN c
DropColumn(t, c) ==
    TypedTable(Without(t.cols, ColIdx(t.cols, c)), Without(t.types, ColIdx(t.cols, c)),
               [i \in 1..Len(t.rows) |-> Without(t.rows[i], ColIdx(t.cols, c))])

\* ALTER TABLE ... RENAME COLUMN old TO new
RenameColumn(t, old, new) ==
    TypedTable([k \in 1..Len(t.cols) |-> IF t.cols[k] = old THEN new ELSE t.cols[k]],
               t.types, t.rows)

\* rename_map, applied to the columns that are present
RenameAliases(t) ==
    LET Canon(c) == CASE c = "user_Id" -> "user_id"
                      [] c = "session_Id" -> "session_id"
                      [] c = "timestamp [UTC]" -> "timestamp"
                      [] OTHER -> c
    IN TypedTable([k \in 1..Len(t.cols) |-> Canon(t.cols[k])], t.types, t.rows)

\* the format that the chain of re.match tests gives the sample val
InferFormat(val) ==
    CASE val \in {"29.03.2025 00:00", "29.03.2025 00:05", "31.02.2025 00:00"} ->
             "%d.%m.%Y %H:%M"
      [] val = "28.03.2025" -> "%d.%m.%Y"
      [] val = "2025-03-29 00:00:00" -> "%Y-%m-%d %H:%M:%S"
      [] OTHER -> "none"

\* the instant a text of the model stands for
InstantOf(val) ==
    CASE val = "29.03.2025 00:00" -> 0
      [] val = "29.03.2025 00:05" -> 300000
      [] val = "2025-03-29 00:00:00" -> 0
      [] val = "28.03.2025" -> 0 - MsPerDay

\* strptime(val, fmt) returns a value: NULL for NULL, the instant for a text
\* of that format that is a date of the calendar
StrptimeOk(val, fmt) ==
    val = NullStr \/ (InferFormat(val) = fmt /\ val # "31.02.2025 00:00")
Strptime(val) == IF val = NullStr THEN NullInt ELSE InstantOf(val)

\* TRY_CAST(val AS TIMESTAMP): ISO texts only, NULL for any other text
TryCastTimestamp(val) == IF val = "2025-03-29 00:00:00" THEN 0 ELSE NullInt

ColumnValues(t, c) == [i \in 1..Len(t.rows) |-> Get(t.cols, t.rows[i], c)]
TempName(c) == c \o "_temp"

\* the sample of column c: its first value that is not NULL, or NULL
Sample(t, c) ==
    LET nn == {i \in 1..Len(t.rows) : Get(t.cols, t.rows[i], c) # NullStr}
    IN IF nn = {} THEN NullStr ELSE Get(t.cols, t.rows[MinOf(nn)], c)

\* DROP COLUMN c; RENAME COLUMN c_temp TO c
ReplaceByTemp(t, c) == RenameColumn(DropColumn(t, c), TempName(c), c)

\* one turn of the loop over varchar_cols: ADD COLUMN c_temp, UPDATE with
\* strptime, DROP COLUMN c, RENAME; an exception of the UPDATE is caught and
\* the statements before it stay done
ConvertColumn(t, c) ==
    LET fmt == InferFormat(Sample(t, c))
        vals == ColumnValues(t, c)
        added == AddColumn(t, TempName(c), "TIMESTAMP", NullInt)
    IN IF Sample(t, c) = NullStr \/ fmt = "none" THEN t
       ELSE IF \A i \in 1..Len(t.rows) : StrptimeOk(vals[i], fmt)
       THEN ReplaceByTemp(SetColumn(added, TempName(c),
                              [i \in 1..Len(t.rows) |-> Strptime(vals[i])]), c)
       ELSE added

\* varchar_cols, as DESCRIBE lists them before the loop
VarcharCols(t) == SelectSeq(t.cols, LAMBDA c : TypeOf(t, c) = "VARCHAR")

RECURSIVE ConvertColumns(_, _)
ConvertColumns(t, todo) ==
    IF todo = <<>> THEN t
    ELSE ConvertColumns(ConvertColumn(t, Head(todo)), Tail(todo))

\* the fallback for a column timestamp that is still VARCHAR; ADD COLUMN
\* raises when timestamp_temp exists, and the exception is caught
FallbackCast(t) ==
    IF "timestamp" \in Range(t.cols) /\ TypeOf(t, "timestamp") = "VARCHAR"
    THEN IF TempName("timestamp") \in Range(t.cols) THEN t
         ELSE ReplaceByTemp(
                 SetColumn(AddColumn(t, TempName("timestamp"), "TIMESTAMP", NullInt),
                           TempName("timestamp"),
                           [i \in 1..Len(t.rows) |->
                               TryCastTimestamp(ColumnValues(t, "timestamp")[i])]),
                 "timestamp")
    ELSE t

\* temp_import when load_file_to_temp_table returns, for the table read
LoadResult(read) ==
    FallbackCast(ConvertColumns(RenameAliases(read), VarcharCols(RenameAliases(read))))

\* the exports of App Insights name three columns differently
SchemaAppInsights == <<"timestamp [UTC]", "user_Id", "session_Id", "name",
                       "CP_searchQuery", "searchQuery", "query", "CP_totalResultCount">>
ReadTypes == <<"VARCHAR", "VARCHAR", "VARCHAR", "VARCHAR",
               "VARCHAR", "VARCHAR", "VARCHAR", "BIGINT">>

\* the texts of the timestamp column and of the query column of a file
TimestampTexts == {"29.03.2025 00:00", "29.03.2025 00:05", "31.02.2025 00:00",
                   "2025-03-29 00:00:00", NullStr}
QueryTexts == {"abc", "28.03.2025", NullStr}

ReadRows == {Row(ts, "u1", "s1", ST, q, NullInt) : ts \in TimestampTexts, q \in QueryTexts}

\* the tables that read_csv or read_excel may give, timestamps kept as text
ReadTables ==
    {TypedTable(cols, ReadTypes, rows) :
        cols \in {SchemaFull, SchemaAppInsights},
        rows \in SeqsUpTo(ReadRows, MaxBatch) \ {<<>>}}

\* load_file_to_temp_table: temp_import is the table read from the file,
\* then its aliases are renamed and its text columns converted
load_file_to_temp_table ==
    /\ pc = "read"
    /\ last_batch' = LoadResult(last_batch)
    /\ pc' = "loaded"
    /\ UNCHANGED <<storeVars, deleted_count, upsert_status, merges, input_dir, run_mode,
                   files_to_process, processed, run_result, raw_at_start,
                   searches_at_start, runs, exportVars>>

LoadInit ==
    /\ searches_raw = NoTable
    /\ searches = NoTable
    /\ last_batch \in ReadTables
    /\ deleted_count = 0
    /\ upsert_status = "none"
    /\ merges = 0
    /\ input_dir = {}
    /\ pc = "read"
    /\ run_mode = "explicit"
    /\ files_to_process = <<>>
    /\ processed = <<>>
    /\ run_result = "running"
    /\ raw_at_start = NoTable
    /\ searches_at_start = NoTable
    /\ runs = 1
    /\ NoExports

LoadNext == load_file_to_temp_table

SpecLoad == LoadInit /\ [][LoadNext]_vars

\* ------------------------------------- add_calculated_columns on any store
DeriveRows ==
    { Row(0, "u1", "s1", ST, "abc", NullInt),
      Row(300, "u1", "s1", RC, NullStr, 0),
      Row(300, "u1", "s1", CLICK, NullStr, NullInt),
      Row(0, "u1", "s2", ST, "abc", NullInt),
      Row(82800000, "u1", "s1", RC, NullStr, 5),
      Row(500, "u1", "s1", RC, "xyz", 7),
      Row(60500, "u1", "s1", ST, "abc", NullInt),
      Row(1000, "u1", "s1", "search_result_count", NullStr, 0),
      Row(2000, "u1", "s1", "search_result_click", NullStr, NullInt),
      Row(90000000, "u1", "s1", ST, "late", NullInt),
      Row(100, "u1", "s1", "SEARCH_SUGGESTION_CLICK", "late", NullInt),
      Row(25200000, "a_b", "c", ST, "abc", NullInt),
      Row(0, "a", "b_c", CLICK, NullStr, NullInt),
      Row(18000000, NullStr, "s1", ST, "abc", NullInt),
      Row(700, "u1", "s2", "SEARCH_TAB_CLICK", NullStr, NullInt) }

DeriveInit ==
    /\ searches_raw \in {Table(SchemaFull, rows) : rows \in SeqsUpTo(DeriveRows, MaxRawRows)}
    /\ searches = NoTable
    /\ last_batch = NoTable
    /\ deleted_count = 0
    /\ upsert_status = "none"
    /\ merges = 0
    /\ input_dir = {}
    /\ pc = "derive"
    /\ run_mode = "explicit"
    /\ files_to_process = <<>>
    /\ processed = <<>>
    /\ run_result = "running"
    /\ raw_at_start = NoTable
    /\ searches_at_start = NoTable
    /\ runs = 1
    /\ NoExports

DeriveNext == add_calculated_columns \/ FinishRun

SpecDerive == DeriveInit /\ [][DeriveNext]_vars

\* ------------------------------------------------------ properties of a run
DatedAscending(seq) ==
    \A a, b \in 1..Len(seq) :
        (a < b /\ FileDate(seq[a]) # NoDate /\ FileDate(seq[b]) # NoDate)
        => FileDate(seq[a]) <= FileDate(seq[b])

\* the files of the run, merged and still to merge, in processing order
RunSequence == processed \o files_to_process

RowsWithKey(tab, k) == {tab.rows[i] : i \in {j \in 1..Len(tab.rows) : KeyOf(tab.cols, tab.rows[j]) = k}}

\* the dated files of the run whose batch has a row of key k
DatedHolders(k) ==
    {f \in Range(processed) : FileDate(f) # NoDate /\ k \in BatchKeys(FileInfo(f).batch)}

\* the store has a row with the values of row t of the table tab, column by
\* column
Holds(tab, t) ==
    \E i \in 1..Len(searches_raw.rows) :
        \A c \in Range(tab.cols) :
            /\ c \in Range(searches_raw.cols)
            /\ Get(searches_raw.cols, searches_raw.rows[i], c) = Get(tab.cols, t, c)

\* the rows of key k in the store are the rows of key k of a file of the
\* latest date among fs: each of them is stored, and the store has no other
\* row of that key
HoldsLatest(k, fs) ==
    \E f \in fs :
        /\ \A g \in fs : FileDate(g) <= FileDate(f)
        /\ \A t \in RowsWithKey(FileInfo(f).batch, k) : Holds(FileInfo(f).batch, t)
        /\ \A r \in RowsWithKey(searches_raw, k) :
              \E t \in RowsWithKey(FileInfo(f).batch, k) :
                  CarriesBatchRow(searches_raw.cols, r, FileInfo(f).batch.cols, t)

AllKeysOfRun == UNION {BatchKeys(FileInfo(f).batch) : f \in Range(processed)}

FullRunActive == run_mode = "full" /\ run_result \in {"running", "done"}
FullRunDone == run_mode = "full" /\ run_result = "done"

\* C7: a full refresh merges every discovered file, one after the other in
\* ascending filename date, and in the end the store holds, for a key found in
\* several dated files, the row of the file with the latest date.
C7_FullRefreshOrder ==
    /\ FullRunActive => DatedAscending(RunSequence)
    /\ FullRunDone =>
          /\ Len(processed) = Cardinality(Range(processed))
          /\ \A k \in AllKeysOfRun :
                Cardinality(DatedHolders(k)) >= 2 => HoldsLatest(k, DatedHolders(k))

\* C8: a run that ends because no input file is found, or the named file is
\* missing, leaves the persisted tables as they were when it started.
C8_InputErrorNoMutation ==
    (pc = "idle" /\ run_result \in {"no_input", "file_not_found"}) =>
        /\ searches_raw = raw_at_start
        /\ searches = searches_at_start

\* the result count of the rows of key k in the batch merged last
LastBatchCounts(k) ==
    {Get(last_batch.cols, r, "CP_totalResultCount") : r \in RowsWithKey(last_batch, k)}

\* C9: after a run that completed, searches has one row per row of
\* searches_raw, with that row's values and is_null_result computed from
\* them; and every row of searches whose key is in the batch merged last
\* carries a result count of that batch (false for a count above zero).
C9_EnrichedRebuilt ==
    (pc = "idle" /\ run_result = "done") =>
        /\ searches.exists
        /\ Len(searches.rows) = Len(searches_raw.rows)
        /\ \A i \in 1..Len(searches.rows) :
              LET e == searches.rows[i]
                  r == searches_raw.rows[i]
                  k == KeyOf(searches_raw.cols, r)
              IN /\ <<e.timestamp, e.user_id, e.session_id>> = <<k[1], k[2], k[3]>>
                 /\ e.CP_totalResultCount = Get(searches_raw.cols, r, "CP_totalResultCount")
                 /\ (k[4] = RC /\ e.CP_totalResultCount = 0) => e.is_null_result = SqlTrue
                 /\ (k[4] = RC /\ e.CP_totalResultCount > 0) => e.is_null_result = SqlFalse
                 /\ k \in BatchKeys(last_batch) =>
                       /\ e.CP_totalResultCount \in LastBatchCounts(k)
                       /\ (k[4] = RC /\ \A c \in LastBatchCounts(k) : c > 0)
                          => e.is_null_result = SqlFalse

\* C10: in every session the event_order values are 1..N, each once, and an
\* event of earlier timestamp has the smaller event_order.
C10_EventOrder ==
    searches.exists =>
        \A k \in {searches.rows[i].session_key : i \in 1..Len(searches.rows)} :
            LET S == {i \in 1..Len(searches.rows) : searches.rows[i].session_key = k}
            IN /\ {searches.rows[i].event_order : i \in S} = 1..Cardinality(S)
               /\ \A i, j \in S :
                     /\ i # j => searches.rows[i].event_order # searches.rows[j].event_order
                     /\ searches.rows[i].timestamp < searches.rows[j].timestamp
                        => searches.rows[i].event_order < searches.rows[j].event_order

\* C10 witness: a session whose later event stands before its earlier event
\* in the store, and two events of one session with the same timestamp
C10_Witness ==
    /\ searches.exists
    /\ \E i, j \in 1..Len(searches.rows) :
          /\ i < j
          /\ searches.rows[i].session_key = searches.rows[j].session_key
          /\ searches.rows[i].timestamp > searches.rows[j].timestamp
    /\ \E i, j \in 1..Len(searches.rows) :
          /\ i # j
          /\ searches.rows[i].session_key = searches.rows[j].session_key
          /\ searches.rows[i].timestamp = searches.rows[j].timestamp

\* ------------------------------------------------ properties of the features
\* rows i and j of searches are events of one session
SameSession(i, j) == searches.rows[i].session_key = searches.rows[j].session_key

\* C11: of two events of one session with the same timestamp, the one that
\* stands earlier in the store has the smaller event_order, and the event
\* right after it in the session has it as its predecessor.
C11_StableTieBreak ==
    searches.exists =>
        \A i, j \in 1..Len(searches.rows) :
            (/\ i < j
             /\ SameSession(i, j)
             /\ searches.rows[i].timestamp = searches.rows[j].timestamp)
            => /\ searches.rows[i].event_order < searches.rows[j].event_order
               /\ searches.rows[j].event_order = searches.rows[i].event_order + 1
                  => searches.rows[j].prev_event = searches.rows[i].name

C14_BucketBands ==
    searches.exists =>
        \A i \in 1..Len(searches.rows) :
            LET ms == searches.rows[i].ms_since_prev_event
                b == searches.rows[i].time_since_prev_bucket
            IN ms # NullInt =>
                  /\ b = "< 0.5s" <=> ms < 500
                  /\ b = "0.5-1s" <=> (500 <= ms /\ ms < 1000)
                  /\ b = "1-2s" <=> (1000 <= ms /\ ms < 2000)
                  /\ b = "2-5s" <=> (2000 <= ms /\ ms < 5000)
                  /\ b = "5-10s" <=> (5000 <= ms /\ ms < 10000)
                  /\ b = "10-30s" <=> (10000 <= ms /\ ms < 30000)
                  /\ b = "30-60s" <=> (30000 <= ms /\ ms < 60000)
                  /\ b = "> 60s" <=> 60000 <= ms

\* C14 witness: one event 500 ms and one event 60000 ms after its predecessor
C14_Witness ==
    /\ searches.exists
    /\ \E i, j \in 1..Len(searches.rows) :
          /\ searches.rows[i].ms_since_prev_event = 500
          /\ searches.rows[i].time_since_prev_bucket = "0.5-1s"
          /\ searches.rows[j].ms_since_prev_event = 60000
          /\ searches.rows[j].time_since_prev_bucket = "> 60s"

\* the exports of the last run are those of the table searches
ExportsWritten == pc = "idle" /\ run_result = "done"

\* the SEARCH_TRIGGERED events of the session of row i at or before it
SearchesUpTo(i) ==
    {j \in 1..Len(searches.rows) :
        /\ SameSession(i, j)
        /\ searches.rows[j].name = ST
        /\ searches.rows[j].timestamp <= searches.rows[i].timestamp}

\* C15: active_search_term of an event is the search_term_normalized of the
\* latest SEARCH_TRIGGERED event at or before it in its session, and null
\* when there is none; the term of an event of another type does not
\* replace it.
C15_ForwardFill ==
    ExportsWritten =>
        \A i \in DOMAIN terms_context :
            IF SearchesUpTo(i) = {}
            THEN terms_context[i].active_search_term = NullStr
            ELSE \E j \in SearchesUpTo(i) :
                    /\ \A k \in SearchesUpTo(i) :
                          searches.rows[k].timestamp <= searches.rows[j].timestamp
                    /\ terms_context[i].active_search_term
                       = searches.rows[j].search_term_normalized

\* the SEARCH_TRIGGERED events of the user and local day of row i
SearchesOfUserDay(i) ==
    {j \in 1..Len(searches.rows) :
        /\ searches.rows[j].name = ST
        /\ searches.rows[j].user_id = searches.rows[i].user_id
        /\ searches.rows[j].session_date = searches.rows[i].session_date}

\* C16: of the SEARCH_TRIGGERED events of one user and local day exactly
\* one, an earliest one, has is_first_search_of_day = true and the others
\* have false; an event of another type has null.
C16_FirstSearchOfDay ==
    searches.exists =>
        \A i \in 1..Len(searches.rows) :
            IF searches.rows[i].name = ST
            THEN /\ searches.rows[i].is_first_search_of_day \in {SqlTrue, SqlFalse}
                 /\ \E j \in SearchesOfUserDay(i) :
                       /\ searches.rows[j].is_first_search_of_day = SqlTrue
                       /\ \A k \in SearchesOfUserDay(i) :
                             /\ searches.rows[j].timestamp <= searches.rows[k].timestamp
                             /\ k # j => searches.rows[k].is_first_search_of_day = SqlFalse
            ELSE searches.rows[i].is_first_search_of_day = NullStr

\* C17: is_null_result is not null only for SEARCH_RESULT_COUNT events; for
\* such an event it is true when the result count is zero and false when it
\* is another number; for an event of another type it is null.
C17_NullResultFlag ==
    searches.exists =>
        \A i \in 1..Len(searches.rows) :
            LET e == searches.rows[i]
            IN IF e.name = RC
               THEN /\ e.CP_totalResultCount = 0 => e.is_null_result = SqlTrue
                    /\ (e.CP_totalResultCount # NullInt /\ e.CP_totalResultCount # 0)
                       => e.is_null_result = SqlFalse
               ELSE e.is_null_result = NullStr

\* C18: is_success_click is never null, it is true exactly for
\* SEARCH_RESULT_CLICK events, and an event with is_success_click = true
\* has the click_category 'Result'.
C18_SuccessClick ==
    searches.exists =>
        \A i \in 1..Len(searches.rows) :
            LET e == searches.rows[i]
            IN /\ e.is_success_click \in {SqlTrue, SqlFalse}
               /\ e.is_success_click = SqlTrue <=> e.name = CLICK
               /\ e.is_success_click = SqlTrue => e.click_category = "Result"

\* the day of the UTC calendar and the day of the Europe/Berlin calendar that
\* the instant ts lies on (day 0 is 2025-03-29; Berlin is at UTC+1 until
\* 2025-03-30 01:00 UTC and at UTC+2 from then on)
UtcDayOf(ts) == CHOOSE d \in 0..3 : d * MsPerDay <= ts /\ ts < (d + 1) * MsPerDay
LocalDayOf(ts) ==
    CHOOSE d \in 0..3 :
        LET offset == IF ts < DstStartMs THEN MsPerHour ELSE 2 * MsPerHour
        IN d * MsPerDay <= ts + offset /\ ts + offset < (d + 1) * MsPerDay

\* C19: session_date is the Europe/Berlin calendar day of the event's UTC
\* timestamp; two events of one user on the same local day have the same
\* session_date, and the same session_key if their session ids are equal.
C19_SessionDateLocal ==
    searches.exists =>
        \A i, j \in 1..Len(searches.rows) :
            LET a == searches.rows[i]
                b == searches.rows[j]
            IN /\ a.session_date = LocalDayOf(a.timestamp)
               /\ (a.user_id = b.user_id /\ LocalDayOf(a.timestamp) = LocalDayOf(b.timestamp))
                  => /\ a.session_date = b.session_date
                     /\ a.session_id = b.session_id => a.session_key = b.session_key

\* C19 witness: two events of one user and session on different UTC days
\* and the same local day
C19_Witness ==
    /\ searches.exists
    /\ \E i, j \in 1..Len(searches.rows) :
          /\ searches.rows[i].user_id = searches.rows[j].user_id
          /\ UtcDayOf(searches.rows[i].timestamp) # UtcDayOf(searches.rows[j].timestamp)
          /\ searches.rows[i].session_date = searches.rows[j].session_date
          /\ searches.rows[i].session_key = searches.rows[j].session_key

\* the events of searches with the session key k
EventsOfKey(k) == {i \in 1..Len(searches.rows) : searches.rows[i].session_key = k}

\* C20: the journeys export has one row for every session key of searches
\* and no other row, and the total_events of that row is the number of
\* events with that session key.
C20_JourneyPerSession ==
    ExportsWritten =>
        /\ Cardinality(journeys)
           = Cardinality({searches.rows[i].session_key : i \in 1..Len(searches.rows)})
        /\ \A i \in 1..Len(searches.rows) :
              LET k == searches.rows[i].session_key
              IN /\ Cardinality({r \in journeys : r.session_key = k}) = 1
                 /\ \A r \in journeys :
                       r.session_key = k => r.total_events = Cardinality(EventsOfKey(k))

\* the journey rows of the events with the session key k
JourneysOfKey(k) == {r \in journeys : r.session_key = k}

OutcomeLabels == {"Success", "Engaged", "No Results", "Abandoned", "Unknown"}

EventsOnDate(d) == {i \in 1..Len(searches.rows) : searches.rows[i].session_date = d}

\* C22: every session_date of an event of searches has exactly one row in
\* the daily export, and total_events of that row is the number of events
\* with that session_date; so also for a date whose events all lack a user id.
C22_DailyPerDate ==
    ExportsWritten =>
        \A i \in 1..Len(searches.rows) :
            LET d == searches.rows[i].session_date
            IN /\ Cardinality({r \in daily : r.date = d}) = 1
               /\ \A r \in daily : r.date = d => r.total_events = Cardinality(EventsOnDate(d))

\* the counts that the rates of date d are made of
StartsOn(d) == Cardinality({i \in EventsOnDate(d) : searches.rows[i].name = ST})
ResultsOn(d) == Cardinality({i \in EventsOnDate(d) : searches.rows[i].name = RC})
SuccessClicksOn(d) ==
    Cardinality({i \in EventsOnDate(d) : searches.rows[i].is_success_click = SqlTrue})
NullResultsOn(d) ==
    Cardinality({i \in EventsOnDate(d) : searches.rows[i].is_null_result = SqlTrue})

\* the rate r, in hundredths of a percent, is exactly 100 * a / b
ExactPct(r, a, b) == r * b = 10000 * a

\* the rate r, in hundredths of a percent, is 100 * a / b rounded to two
\* decimals, a half rounded up
RoundedPct(r, a, b) ==
    /\ 2 * (r * b - 10000 * a) <= b
    /\ 2 * (10000 * a - r * b) < b

\* C23: click_rate_pct of a date is null exactly when the date has no
\* SEARCH_TRIGGERED event and is otherwise 100 * success clicks / search
\* starts; null_rate_pct is null exactly when the date has no
\* SEARCH_RESULT_COUNT event and is otherwise 100 * null results / result
\* events.
C23_DailyRates ==
    ExportsWritten =>
        \A r \in daily :
            /\ r.click_rate_pct = NullInt <=> StartsOn(r.date) = 0
            /\ r.click_rate_pct # NullInt =>
                  ExactPct(r.click_rate_pct, SuccessClicksOn(r.date), StartsOn(r.date))
            /\ r.null_rate_pct = NullInt <=> ResultsOn(r.date) = 0
            /\ r.null_rate_pct # NullInt =>
                  ExactPct(r.null_rate_pct, NullResultsOn(r.date), ResultsOn(r.date))

\* C23 as amended: the same with each rate rounded to two decimals.
C23_DailyRatesRounded ==
    ExportsWritten =>
        \A r \in daily :
            /\ r.click_rate_pct = NullInt <=> StartsOn(r.date) = 0
            /\ r.click_rate_pct # NullInt =>
                  RoundedPct(r.click_rate_pct, SuccessClicksOn(r.date), StartsOn(r.date))
            /\ r.null_rate_pct = NullInt <=> ResultsOn(r.date) = 0
            /\ r.null_rate_pct # NullInt =>
                  RoundedPct(r.null_rate_pct, NullResultsOn(r.date), ResultsOn(r.date))

\* C23 witness: a daily row without a search start, whose click rate is
\* null, and with one null result among three result events (33.33 %)
C23_Witness ==
    /\ ExportsWritten
    /\ \E r \in daily :
          /\ r.search_starts = 0 /\ r.click_rate_pct = NullInt
          /\ r.result_events = 3 /\ r.null_results = 1 /\ r.null_rate_pct = 3333

\* the SEARCH_TRIGGERED events among the events S of searches
StartsIn(S) == {i \in S : searches.rows[i].name = ST}

\* the number of SEARCH_TRIGGERED events of S whose local hour is in lo..hi-1
StartsInHours(S, lo, hi) ==
    Cardinality({i \in StartsIn(S) : /\ lo <= searches.rows[i].event_hour
                                      /\ searches.rows[i].event_hour < hi})

\* the four band counts of an export row
BandsOf(r) == <<r.searches_night, r.searches_morning, r.searches_afternoon,
                r.searches_evening>>

\* the counts of the SEARCH_TRIGGERED events of S in the bands that begin at
\* the hours 0, b1, b2 and b3
BandCounts(S, b1, b2, b3) ==
    <<StartsInHours(S, 0, b1), StartsInHours(S, b1, b2), StartsInHours(S, b2, b3),
      StartsInHours(S, b3, 24)>>

\* the events that the row r of the terms export is grouped from
EventsOfTermRow(r) ==
    {i \in DOMAIN terms_context :
        /\ terms_context[i].session_date = r.session_date
        /\ terms_context[i].active_search_term = r.search_term}

DatesOfTerm(t) ==
    {searches.rows[i].session_date :
        i \in {j \in 1..Len(searches.rows) : searches.rows[j].search_term_normalized = t}}

\* the normalized terms of searches, the empty text not counted
TermsOfSearches ==
    {searches.rows[i].search_term_normalized : i \in 1..Len(searches.rows)} \ {NullStr, ""}

\* C25: every pair of a date and a normalized term of an event of searches
\* has exactly one row in the terms export; is_new_term of a row is true
\* exactly when its date is the earliest session_date of its term in
\* searches; and every term has exactly one row with is_new_term = true.
C25_TermRows ==
    ExportsWritten =>
        /\ \A t \in TermsOfSearches : \A d \in DatesOfTerm(t) :
              Cardinality({r \in terms : r.session_date = d /\ r.search_term = t}) = 1
        /\ \A r \in terms :
              r.is_new_term = SqlTrue <=> r.session_date = MinOf(DatesOfTerm(r.search_term))
        /\ \A t \in TermsOfSearches :
              Cardinality({r \in terms : r.search_term = t /\ r.is_new_term = SqlTrue}) = 1

\* the pairs of a date and an active search term of the events that the terms
\* export reads
ActiveTermPairs ==
    {<<terms_context[i].session_date, terms_context[i].active_search_term>> :
        i \in {j \in DOMAIN terms_context :
                  terms_context[j].active_search_term \notin {NullStr, ""}}}

\* C25 as amended: the terms export has exactly one row for every pair of a
\* date and an active search term of a search, result-count or categorised
\* click event, and no other row; is_new_term of a row is true exactly when
\* its date is the earliest session_date of its term in searches; and every
\* term has at most one row with is_new_term = true.
C25_TermRowsAmended ==
    ExportsWritten =>
        /\ \A p \in ActiveTermPairs :
              Cardinality({r \in terms : r.session_date = p[1] /\ r.search_term = p[2]}) = 1
        /\ \A r \in terms :
              /\ <<r.session_date, r.search_term>> \in ActiveTermPairs
              /\ r.search_term \in TermsOfSearches
              /\ r.is_new_term \in {SqlTrue, SqlFalse}
              /\ r.is_new_term = SqlTrue
                 <=> r.session_date = MinOf(DatesOfTerm(r.search_term))
        /\ \A t \in TermsOfSearches :
              Cardinality({r \in terms : r.search_term = t /\ r.is_new_term = SqlTrue}) <= 1

\* C25 witness: a term that is new on the date of its row, and a term first
\* seen on an event that the terms export does not read, whose only row is of
\* a later date and not new
C25_Witness ==
    /\ ExportsWritten
    /\ \E r \in terms : r.is_new_term = SqlTrue
    /\ \E r \in terms :
          /\ r.is_new_term = SqlFalse
          /\ r.first_seen_date < r.session_date
          /\ \A q \in terms : q.search_term = r.search_term => q = r

\* row number k of the batch of the file processed as number n of the run is
\* still stored, with its values in the store's column order
StillStored(n, k) ==
    \E i \in 1..Len(searches_raw.rows) :
        searches_raw.rows[i] = FileInfo(processed[n]).batch.rows[k]

\* a file processed later in the run has a row with the key of that row
ReplacedLater(n, k) ==
    \E m \in (n + 1)..Len(processed) :
        \E j \in 1..Len(FileInfo(processed[m]).batch.rows) :
            PkMatch(searches_raw.cols, FileInfo(processed[n]).batch.rows[k],
                    FileInfo(processed[m]).batch.cols, FileInfo(processed[m]).batch.rows[j])

ExportFailed == pc = "idle" /\ run_result = "export_failed"

\* C26: after a run that ended in a failure of the export, the store holds
\* every row that the run merged, but for the rows that a later file of the
\* same run replaced, and its last rows are the rows of the last file.
C26_NoRollback ==
    ExportFailed =>
        /\ searches_raw.exists
        /\ Len(processed) >= 1
        /\ \A n \in 1..Len(processed) :
              \A k \in 1..Len(FileInfo(processed[n]).batch.rows) :
                  StillStored(n, k) \/ ReplacedLater(n, k)
        /\ \A k \in 1..Len(last_batch.rows) :
              /\ Len(searches_raw.rows) >= Len(last_batch.rows)
              /\ searches_raw.rows[Len(searches_raw.rows) - Len(last_batch.rows) + k]
                 = last_batch.rows[k]

\* C26 witness: the export failed in a run that merged two files into a
\* store that held other rows when the run started
C26_Witness ==
    /\ ExportFailed
    /\ Len(processed) >= 2
    /\ searches_raw # raw_at_start
    /\ raw_at_start.exists

\* the step is a call of load_file_to_temp_table
IsLoadStep == pc = "read" /\ pc' = "loaded"

\* the format inferred from the sample of the text column c of the table t
\* does not parse every value of the column
InferredFormatFails(t, c) ==
    /\ TypeOf(t, c) = "VARCHAR"
    /\ Sample(t, c) # NullStr
    /\ InferFormat(Sample(t, c)) # "none"
    /\ \E i \in 1..Len(t.rows) :
          ~StrptimeOk(ColumnValues(t, c)[i], InferFormat(Sample(t, c)))

\* C27: when the format inferred for a text column does not parse one of its
\* values, the load completes, the column is still text with the values it
\* had, and the table has the columns it had before the conversions, no
\* more and no less.
C27_ConversionContained ==
    [][IsLoadStep =>
          \A c \in Range(RenameAliases(last_batch).cols) :
              InferredFormatFails(RenameAliases(last_batch), c) =>
                  /\ c \in Range(last_batch'.cols)
                  /\ TypeOf(last_batch', c) = "VARCHAR"
                  /\ ColumnValues(last_batch', c) = ColumnValues(RenameAliases(last_batch), c)
                  /\ Range(last_batch'.cols) = Range(RenameAliases(last_batch).cols)]_vars

\* rows i and j of the batch merged last are two rows of one composite key
DuplicateInBatch(i, j) ==
    /\ i \in 1..Len(last_batch.rows) /\ j \in 1..Len(last_batch.rows)
    /\ i < j
    /\ KeyOf(last_batch.cols, last_batch.rows[i]) = KeyOf(last_batch.cols, last_batch.rows[j])

\* row a of the store holds the values of row i of the batch merged last,
\* in the order the INSERT ... SELECT * wrote them
StoresBatchRow(a, i) ==
    /\ Len(searches_raw.rows[a]) = Len(last_batch.rows[i])
    /\ searches_raw.rows[a] = last_batch.rows[i]

C29_SessionKeyInjective ==
    searches.exists =>
        \A i, j \in 1..Len(searches.rows) :
            LET a == searches.rows[i]
                b == searches.rows[j]
            IN (a.session_key = b.session_key)
               <=> (/\ a.session_date = b.session_date
                    /\ a.user_id = b.user_id
                    /\ a.session_id = b.session_id)

\* the outcome print_summary counts the session key k under
SummaryOutcomeOf(k) ==
    (CHOOSE o \in SummaryOutcomes(searches.rows) : o.session_key = k).outcome

\* C30: a journey whose click events are all success clicks has the
\* journey_outcome that print_summary counts its session under, and a
\* journey whose journey_outcome differs from the outcome of the summary is
\* 'Engaged'.
C30_SummaryMatchesJourneys ==
    ExportsWritten =>
        \A r \in journeys :
            /\ r.click_count = r.success_click_count
                  => SummaryOutcomeOf(r.session_key) = r.journey_outcome
            /\ SummaryOutcomeOf(r.session_key) # r.journey_outcome
                  => r.journey_outcome = "Engaged"

====
